---- MODULE Spec2Model ----
(***************************************************************************)
(* Numerical integration of Gaussian shell pairs on a uniform grid         *)
(* (pyscf/lib/dft/numint_uniform_grid.c).                                  *)
(*                                                                         *)
(* Real numbers.  x_frac, cutoff and the slice edges are rationals with    *)
(* the common denominator Den; only their numerators are stored, so that   *)
(* floor, ceil and the (int) cast are exact integer operations.            *)
(*                                                                         *)
(* Array contents.  A double held in xs_all / xs_exp is a formal sum of    *)
(* atoms, kept as a bag: Atom(k) is the value the power recursion stores   *)
(* at xs_all[k], STALE is whatever the scratch memory held before the      *)
(* call, EmptyBag is 0.  "=" writes a bag, "+=" is bag sum.                *)
(***************************************************************************)
EXTENDS Integers, Naturals, Sequences, FiniteSets, Bags, TLC

VARIABLES
    cpc,         \* GTOnumint_3d_orth, one axis: "idle" | "call" | "cart" | "done"
    ax,          \* the arguments of _cartesian_components for that axis
    img_slice,   \* <<nimg0, nimg1>>
    grid_slice,  \* <<nx0, nx1>>
    xs_exp,      \* [0 .. (topl+1)*nx_per_cell-1 -> bag]
    contr,       \* what the axis contraction read: [branch, ngrid, idx]
    pairing,     \* which products it summed: [axis, prod], prod[l] the bag of
                 \*     <<weight row, offset into the axis' exp array>>
    dpc,         \* GTO_numint1e_drv: "idle" | "entry" | "loop" | "looped" |
                 \*                   "returned" | "fatal"
    shl,         \* the call: entry point, lattice, shell pair, dims, prior memory
    lp,          \* GTOnumint1e_loop: [jp, ip, jempty, iempty]
    gctr,        \* GTO_numint1e_drv's gctr region of the cache
    out,         \* the caller's output array
    ret,         \* has_value as returned: "none" | 0 | 1
    kernel,      \* the 3d routine the primitive loop has run: "none" | "orth"
    qpc,         \* sizing then execution of one shell pair: "idle" | "start" |
                 \*     "sized" | "drv" | "loop" | "orth" | "done"
    q,           \* the shell pair, the mesh and the dimension
    cache_size,  \* what the sizing call (out == NULL) returned
    qprim,       \* the primitive pair given to GTOnumint_3d_orth: [x_frac, cutoff]
    cbase,       \* offset of the callee's cache pointer from the buffer start
    ctop,        \* end (exclusive) of the highest cache region used so far
    fpc,         \* NUMINT1e_fill2c, the encountering thread: "idle" |
                 \*     "parallel" | "mirror" | "returned"
    f,           \* its arguments: [hermi, ish0, ish1, jsh0, jsh1, comp]
    next_ij,     \* the next iteration the dynamic schedule hands out
    tpc,         \* per worker thread: "idle" | "calling" | "done"
    tij,         \* per worker thread: the iteration whose intor call is in flight
    mat,         \* the output matrix, by element offset
    calls,       \* how often intor was invoked per shell pair <<ish, jsh>>
    writers,     \* per element offset: the shell pairs whose call stored it
    mic,         \* the mirror loop's component index ic
    rpc,         \* gto_rcut: "idle" | "entry" | "returned"
    rarg,        \* its arguments: [alpha, l, log_c, log_prec]
    rcut,        \* the returned r >= 0, as r^2 = num / den: [num, den]
    mpc,         \* _max_cache_size then one loop iteration: "idle" | "scan" | "sized" | "pair"
    mb,          \* the basis [shell -> [l, ctr]], shls_slice, mesh and n_comp
    mi,          \* _max_cache_size's loop index i
    max_size,    \* _max_cache_size's cache_size
    mshls,       \* shls of the intor call of the fill loop
    mneed,       \* what the sizing query returns for mshls
    kpc,         \* the primitive loops of GTOnumint1e_loop: "idle" | "loop" | "done"
    karg,        \* [i_prim, j_prim, i_ctr, j_ctr, len_g1d, shift, skipped]
    klp,         \* [jp, ip, jempty, iempty]
    gprim,       \* the buffer g, by offset; a double is a linear form over the g values
    gctri,       \* the buffer gctri, by offset
    gctrj        \* the buffer gctrj, by offset

cartVars == <<cpc, ax, img_slice, grid_slice, xs_exp, contr, pairing>>
drvVars == <<dpc, shl, lp, gctr, out, ret, kernel>>
cacheVars == <<qpc, q, qprim, cache_size, cbase, ctop>>
fillVars == <<fpc, f, next_ij, tpc, tij, mat, calls, writers, mic>>
rcutVars == <<rpc, rarg, rcut>>
maxVars == <<mpc, mb, mi, max_size, mshls, mneed>>
ctrVars == <<kpc, karg, klp, gprim, gctri, gctrj>>

vars == <<cpc, ax, img_slice, grid_slice, xs_exp, contr, pairing,
          dpc, shl, lp, gctr, out, ret, kernel,
          qpc, q, qprim, cache_size, cbase, ctop,
          fpc, f, next_ij, tpc, tij, mat, calls, writers, mic,
          rpc, rarg, rcut,
          mpc, mb, mi, max_size, mshls, mneed,
          kpc, karg, klp, gprim, gctri, gctrj>>

\* the parts of the program a specification does not run
CartIdle ==
    /\ cpc = "idle"
    /\ ax = <<>>
    /\ img_slice = <<0, 0>>
    /\ grid_slice = <<0, 0>>
    /\ xs_exp = <<>>
    /\ contr = <<>>
    /\ pairing = <<>>

DrvIdle ==
    /\ dpc = "idle"
    /\ shl = <<>>
    /\ lp = <<>>
    /\ gctr = <<>>
    /\ out = <<>>
    /\ ret = "none"
    /\ kernel = "none"

CacheIdle ==
    /\ qpc = "idle"
    /\ q = <<>>
    /\ qprim = <<>>
    /\ cache_size = 0
    /\ cbase = 0
    /\ ctop = 0

FillIdle ==
    /\ fpc = "idle"
    /\ f = <<>>
    /\ next_ij = 0
    /\ tpc = <<>>
    /\ tij = <<>>
    /\ mat = <<>>
    /\ calls = <<>>
    /\ writers = <<>>
    /\ mic = 0

RcutIdle ==
    /\ rpc = "idle"
    /\ rarg = <<>>
    /\ rcut = <<>>

MaxCacheIdle ==
    /\ mpc = "idle"
    /\ mb = <<>>
    /\ mi = 0
    /\ max_size = 0
    /\ mshls = <<>>
    /\ mneed = 0

CtrIdle ==
    /\ kpc = "idle"
    /\ karg = <<>>
    /\ klp = <<>>
    /\ gprim = <<>>
    /\ gctri = <<>>
    /\ gctrj = <<>>

(***************************************************************************)
(* Bounds of the model                                                     *)
(***************************************************************************)
Den == 4          \* denominator of the rationals x_frac and cutoff
MaxMesh == 3      \* grid points per cell on an axis: 1..MaxMesh
MaxTopl == 1      \* topl = i_l + j_l: 0..MaxTopl
MaxCut == 5       \* cutoff numerator: 0..MaxCut (cutoff up to MaxCut/Den)
MaxHinv == 2      \* heights_inv (b[0], b[4], b[8]): 1..MaxHinv
MaxPrimLoop == 2  \* primitives per shell in the primitive loop: 1..MaxPrimLoop
MaxCount == 2     \* functions per shell (counts[0], counts[1]): 1..MaxCount
MaxNComp == 2     \* n_comp = ncomp_e1 * ncomp_tensor: 1..MaxNComp
MaxL == 1         \* angular momentum of a shell (i_l, j_l): 0..MaxL
MaxCtr == 2       \* contractions of a shell (i_ctr, j_ctr): 1..MaxCtr
MaxPrim == 11     \* primitives of a shell (i_prim, j_prim): 1 or MaxPrim
MaxMeshC == 2     \* mesh[0], mesh[1], mesh[2] of the cache model: 1..MaxMeshC
MaxCutC == 10     \* cutoff numerator of the cache model: 0..MaxCutC
NShell == 3       \* shells of the basis in the fill model: 0..NShell-1
MaxSlice == 2     \* shells per side of shls_slice: 1..MaxSlice
NThreads == 2     \* worker threads of the parallel region
MaxLogC == 14     \* log|c| of gto_rcut: -MaxLogC..MaxLogC
MaxLogPrec == 6   \* log_prec of gto_rcut: -MaxLogPrec..0
MaxAlpha == 2     \* exponent alpha of gto_rcut: 1..MaxAlpha
NShellM == 2      \* shells of the basis in the cache-maximum model
MaxCtrM == 6      \* contractions of a shell in that model: 1 or MaxCtrM
MaxMeshM == 4     \* mesh[0], mesh[1], mesh[2] in that model: 1..MaxMeshM

Min(a, b) == IF a < b THEN a ELSE b
Max(a, b) == IF a > b THEN a ELSE b

(***************************************************************************)
(* C arithmetic on the rationals n/Den and on ints                         *)
(***************************************************************************)
\* (int)floor(n/Den)
FloorQ(n) == n \div Den
\* (int)ceil(n/Den)
CeilQ(n) == -((-n) \div Den)
\* (int)(n/Den): the cast truncates toward zero
TruncQ(n) == IF n >= 0 THEN n \div Den ELSE -((-n) \div Den)
\* a % n in C: the remainder has the sign of a
CRem(a, n) == IF a >= 0 THEN a % n ELSE -((-a) % n)

\* the atom -1 stands for memory the call did not write
STALE == SetToBag({-1})
Atom(k) == SetToBag({k})

RECURSIVE BagSum(_)
\* s[1] (+) ... (+) s[Len(s)] for a sequence of bags
BagSum(s) ==
    IF Len(s) = 0 THEN EmptyBag
    ELSE Head(s) (+) BagSum(Tail(s))

(***************************************************************************)
(* _cartesian_components, lines 104-132: image range and grid slice        *)
(***************************************************************************)
\* edge0 = x_frac - cutoff * heights_inv        (numerator over Den)
Edge0(a) == a.x_frac - a.cutoff * a.heights_inv
\* edge1 = x_frac + cutoff * heights_inv
Edge1(a) == a.x_frac + a.cutoff * a.heights_inv

Nimg0(periodic, e0) == IF periodic THEN FloorQ(e0) ELSE 0

\* (mutant: nimg1 rounded down instead of up)
Nimg1_floor(periodic, e1) == IF periodic THEN FloorQ(e1) ELSE 1
Nimg1(periodic, e1) == IF periodic THEN CeilQ(e1) ELSE 1

\* nx0 / nx1 after "to ensure nx0, nx1 in unit cell"
GridEdge(periodic, raw, nimg1, nx) ==
    IF periodic THEN CRem(raw + nimg1 * nx, nx)
    ELSE Max(Min(raw, nx), 0)

ImgSlice(a) == <<Nimg0(a.periodic, Edge0(a)), Nimg1(a.periodic, Edge1(a))>>

GridSlice(a) ==
    LET nimg1 == ImgSlice(a)[2]
        nx0 == FloorQ(Edge0(a) * a.nx_per_cell)
        nx1 == CeilQ(Edge1(a) * a.nx_per_cell)
    IN <<GridEdge(a.periodic, nx0, nimg1, a.nx_per_cell),
         GridEdge(a.periodic, nx1, nimg1, a.nx_per_cell)>>

NimgOf(a) == ImgSlice(a)[2] - ImgSlice(a)[1]
NmxOf(a) == NimgOf(a) * a.nx_per_cell

(***************************************************************************)
(* _cartesian_components, lines 143-175: the unfolded array xs_all         *)
(***************************************************************************)
\* grid_close_to_xij = (int)(x_frac * nx_per_cell)
GridCloseToXij(a) == TruncQ(a.x_frac * a.nx_per_cell)

\* xs_all[k] once the recursion (152-162) and the powers (164-175) are
\* stored: rows 0..topl of length nmx, and the seed at grid_close_to_xij.
XsAll(a, k) ==
    IF 0 <= k /\ k < (a.topl + 1) * NmxOf(a) THEN Atom(k)
    ELSE IF k = GridCloseToXij(a) THEN Atom(k)
    ELSE a.prior

(***************************************************************************)
(* _cartesian_components, lines 177-190: folding the images                *)
(***************************************************************************)
\* line 181: xs_exp[i] = px0[i]
FoldFirst(l, nx, i) == i
\* line 186: xs_exp[l*nx_per_cell+i] += px0[i]
FoldRest(l, nx, i) == l * nx + i

RECURSIVE FoldRows(_, _, _)
FoldRows(a, xs, l) ==
    IF l > a.topl THEN xs
    ELSE
      LET nx == a.nx_per_cell
          nmx == NmxOf(a)
          first == [k \in DOMAIN xs |->
                      IF \E i \in 0..(nx-1) : FoldFirst(l, nx, i) = k
                      THEN LET i == CHOOSE i \in 0..(nx-1) : FoldFirst(l, nx, i) = k
                           IN XsAll(a, l * nmx + i)
                      ELSE xs[k]]
          rest == [k \in DOMAIN xs |->
                      IF \E i \in 0..(nx-1) : FoldRest(l, nx, i) = k
                      THEN LET i == CHOOSE i \in 0..(nx-1) : FoldRest(l, nx, i) = k
                           IN first[k] (+) BagSum([m \in 1..(NimgOf(a) - 1) |->
                                                     XsAll(a, l * nmx + m * nx + i)])
                      ELSE first[k]]
      IN FoldRows(a, rest, l + 1)

\* xs_exp when _cartesian_components returns
CartesianXsExp(a) ==
    LET len == (a.topl + 1) * a.nx_per_cell
        before == [k \in 0..(len-1) |-> a.prior]
    IN IF a.periodic THEN FoldRows(a, before, 0)
       ELSE \* xs_all = xs_exp (line 140): the recursion writes it in place
            [k \in 0..(len-1) |-> XsAll(a, k)]

(***************************************************************************)
(* GTOnumint_3d_orth, lines 273-290: the x contraction                     *)
(***************************************************************************)
_has_overlap(nx0, nx1, nx_per_cell) == nx0 < nx1

Contraction(nimg, gs, nx) ==
    LET nx0 == gs[1]
        nx1 == gs[2]
    IN IF nimg = 1
       THEN [branch |-> "slice", ngrid |-> nx1 - nx0,
             idx |-> nx0..(nx1-1)]
       ELSE IF nimg = 2 /\ ~_has_overlap(nx0, nx1, nx)
       THEN [branch |-> "two", ngrid |-> nx1 + (nx - nx0),
             idx |-> (0..(nx1-1)) \cup (nx0..(nx-1))]
       ELSE [branch |-> "full", ngrid |-> nx, idx |-> 0..(nx-1)]

(***************************************************************************)
(* GTO_numint1e_drv and GTOnumint1e_loop for one shell pair                *)
(*                                                                         *)
(* A double of gctr / out is an integer tag: ZERO, STALEVAL (memory the    *)
(* call did not write) or k+1 for the k-th integral value.                 *)
(***************************************************************************)
EXPCUTOFF15 == 40
ZERO == 0
STALEVAL == -1

\* log_iprim_max[ip] + log_jprim_max[jp] (line 452); the largest contraction
\* coefficient of every primitive is 1 here, so both logs are 0
Logcc(s, ip, jp) == 0

\* line 453: if (eij-logcc > EXPCUTOFF15) continue;
Screened(s, ip, jp) == s.eij[<<ip, jp>>] - Logcc(s, ip, jp) > EXPCUTOFF15

\* nc = nf * i_ctr * j_ctr (line 510), for the Cartesian c2s: counts[0]*counts[1]
Nc(s) == s.counts[1] * s.counts[2]
\* dims (lines 528-530): the caller's, or counts
Dims(s) == IF s.dims_null THEN s.counts ELSE <<s.counts[1] + 1, s.counts[2] + 1>>
\* nout = dims[0] * dims[1] (line 531)
Nout(s) == Dims(s)[1] * Dims(s)[2]

\* the elements of out that (*f_c2s)(out+nout*n, gctr+nc*n, dims, ...) stores
\* for component n: the counts[0] x counts[1] block with leading dimension dims[0]
BlockAddr(s, n, i, j) == Nout(s) * n + j * Dims(s)[1] + i
BlockAddrs(s) ==
    {BlockAddr(s, n, i, j) : n \in 0..(s.n_comp - 1),
                              i \in 0..(s.counts[1] - 1), j \in 0..(s.counts[2] - 1)}

\* lines 533-537: the pass-through Cartesian c2s copies gctr into the block
C2sOut(s, g, o) ==
    [a \in DOMAIN o |->
        IF \E n \in 0..(s.n_comp - 1), i \in 0..(s.counts[1] - 1), j \in 0..(s.counts[2] - 1) :
                a = BlockAddr(s, n, i, j)
        THEN LET t == CHOOSE t \in (0..(s.n_comp - 1)) \X (0..(s.counts[1] - 1)) \X (0..(s.counts[2] - 1)) :
                          a = BlockAddr(s, t[1], t[2], t[3])
             IN g[Nc(s) * t[1] + t[3] * s.counts[1] + t[2]]
        ELSE o[a]]

PrimPairs(ni, nj) == (0..(ni - 1)) \X (0..(nj - 1))

DrvArgs ==
    UNION {
      [call : {"GTO_numint1e_drv", "GTOnumint_3d_nonorth"},
       offdiag : BOOLEAN,            \* a / b have a nonzero off-diagonal entry
       i_prim : {ni}, j_prim : {nj},
       eij : [PrimPairs(ni, nj) -> {EXPCUTOFF15, EXPCUTOFF15 + 1}],
       counts : (1..MaxCount) \X (1..MaxCount),
       n_comp : 1..MaxNComp,
       dims_null : BOOLEAN,
       prior : {ZERO, STALEVAL}]
      : ni \in 1..MaxPrimLoop, nj \in 1..MaxPrimLoop }

DrvInit ==
    /\ CtrIdle
    /\ MaxCacheIdle
    /\ RcutIdle
    /\ FillIdle
    /\ CartIdle
    /\ CacheIdle
    /\ dpc = "entry"
    /\ shl \in DrvArgs
    /\ lp = [jp |-> 0, ip |-> 0, jempty |-> TRUE, iempty |-> TRUE]
    /\ gctr = [k \in 0..(Nc(shl) * shl.n_comp - 1) |-> STALEVAL]
    /\ out = [k \in 0..(Nout(shl) * shl.n_comp - 1) |-> shl.prior]
    /\ ret = "none"
    /\ kernel = "none"

\* lines 347-354: prints and exits
GTOnumint_3d_nonorth ==
    /\ dpc = "entry"
    /\ shl.call = "GTOnumint_3d_nonorth"
    /\ dpc' = "fatal"
    /\ UNCHANGED <<shl, lp, gctr, out, ret, kernel>>
    /\ UNCHANGED <<cartVars, cacheVars, fillVars, rcutVars, maxVars, ctrVars>>

\* GTO_numint1e_drv lines 503-515 and GTOnumint1e_loop lines 399-446
DrvEnter ==
    /\ dpc = "entry"
    /\ shl.call = "GTO_numint1e_drv"
    /\ dpc' = "loop"
    /\ lp' = [jp |-> 0, ip |-> 0, jempty |-> TRUE, iempty |-> TRUE]
    /\ UNCHANGED <<shl, gctr, out, ret, kernel>>
    /\ UNCHANGED <<cartVars, cacheVars, fillVars, rcutVars, maxVars, ctrVars>>

\* the 3d routine the primitive loop calls (line 458)
Kernel3d(offdiag) == "orth"

\* GTOnumint1e_loop lines 449-464: one (jp, ip) iteration
PrimPair ==
    /\ dpc = "loop"
    /\ lp.jp < shl.j_prim
    /\ lp.ip < shl.i_prim
    /\ IF Screened(shl, lp.ip, lp.jp)
       THEN /\ lp' = [lp EXCEPT !.ip = @ + 1]
            /\ UNCHANGED kernel
       ELSE /\ kernel' = Kernel3d(shl.offdiag)
            /\ lp' = [lp EXCEPT !.ip = @ + 1, !.iempty = FALSE]
    /\ UNCHANGED <<dpc, shl, gctr, out, ret>>
    /\ UNCHANGED <<cartVars, cacheVars, fillVars, rcutVars, maxVars, ctrVars>>

\* GTOnumint1e_loop lines 447-448 and 465-470: the i loop of one jp is over
EndOfJp ==
    /\ dpc = "loop"
    /\ lp.jp < shl.j_prim
    /\ lp.ip = shl.i_prim
    /\ lp' = [jp |-> lp.jp + 1, ip |-> 0,
              jempty |-> (lp.jempty /\ lp.iempty), iempty |-> TRUE]
    /\ UNCHANGED <<dpc, shl, gctr, out, ret, kernel>>
    /\ UNCHANGED <<cartVars, cacheVars, fillVars, rcutVars, maxVars, ctrVars>>

\* GTOnumint1e_loop lines 472-478: GTOplain_vrr2d fills out (= gctr), return !*jempty
LoopReturn ==
    /\ dpc = "loop"
    /\ lp.jp = shl.j_prim
    /\ gctr' = IF ~lp.jempty THEN [k \in DOMAIN gctr |-> k + 1] ELSE gctr
    /\ ret' = IF lp.jempty THEN 0 ELSE 1
    /\ dpc' = "looped"
    /\ UNCHANGED <<shl, lp, out, kernel>>
    /\ UNCHANGED <<cartVars, cacheVars, fillVars, rcutVars, maxVars, ctrVars>>

\* GTO_numint1e_drv lines 516-538
DrvReturn ==
    /\ dpc = "looped"
    /\ IF ret = 0
       THEN \* line 517: for (n = 0; n < nc*n_comp; n++) { gctr[n] = 0; }
            /\ gctr' = [k \in DOMAIN gctr |-> ZERO]
            /\ UNCHANGED out
       ELSE /\ out' = C2sOut(shl, gctr, out)
            /\ UNCHANGED gctr
    /\ dpc' = "returned"
    /\ UNCHANGED <<shl, lp, ret, kernel>>
    /\ UNCHANGED <<cartVars, cacheVars, fillVars, rcutVars, maxVars, ctrVars>>

DrvNext ==
    \/ GTOnumint_3d_nonorth
    \/ DrvEnter
    \/ PrimPair
    \/ EndOfJp
    \/ LoopReturn
    \/ DrvReturn

SpecDrv == DrvInit /\ [][DrvNext]_vars

(***************************************************************************)
(* The per-axis pipeline of GTOnumint_3d_orth                              *)
(***************************************************************************)
AxisArgs ==
    [periodic : BOOLEAN,
     nx_per_cell : 1..MaxMesh,
     topl : 0..MaxTopl,
     x_frac : (-Den)..(2 * Den - 1),
     cutoff : 0..MaxCut,
     heights_inv : 1..MaxHinv,
     prior : {EmptyBag, STALE}]

CartInit ==
    /\ CtrIdle
    /\ MaxCacheIdle
    /\ RcutIdle
    /\ FillIdle
    /\ DrvIdle
    /\ CacheIdle
    /\ cpc = "call"
    /\ ax \in AxisArgs
    /\ img_slice = <<0, 0>>
    /\ grid_slice = <<0, 0>>
    /\ xs_exp = <<>>
    /\ contr = <<>>
    /\ pairing = <<>>

\* GTOnumint_3d_orth line 231: _cartesian_components(xs_exp, img_slice, ...)
CartesianComponents ==
    /\ cpc = "call"
    /\ img_slice' = ImgSlice(ax)
    /\ grid_slice' = GridSlice(ax)
    /\ xs_exp' = CartesianXsExp(ax)
    /\ cpc' = "cart"
    /\ UNCHANGED <<ax, contr, pairing>>
    /\ UNCHANGED <<drvVars, cacheVars, fillVars, rcutVars, maxVars, ctrVars>>

\* dgemm_(N, N, m, l1, k, alpha, A, m, B, ldb, beta, C, m) sums over
\* i in [0, k) the products A[., i] * B[i, l]; with A starting at weight row
\* arow and B at offset boff of the exp array these are, for power l,
GemmProducts(arow, boff, k, l, ldb) ==
    SetToBag({<<arow + i, boff + i + l * ldb>> : i \in 0..(k - 1)})

\* lines 273-290: the products of the x contraction for power l
ProductsX(nimg, gs, nx, l) ==
    IF nimg = 1
    THEN GemmProducts(gs[1], gs[1], gs[2] - gs[1], l, nx)
    ELSE IF nimg = 2 /\ ~_has_overlap(gs[1], gs[2], nx)
    THEN GemmProducts(0, 0, gs[2], l, nx) (+) GemmProducts(gs[1], gs[1], nx - gs[1], l, nx)
    ELSE GemmProducts(0, 0, nx, l, nx)

\* line 312: the exp operand of the full-mesh branch of the y contraction
FullMeshExpY_start(ny0) == 0
FullMeshExpY(ny0) == ny0

\* lines 292-315: the products of the y contraction for power l
ProductsY(nimg, gs, ny, l) ==
    IF nimg = 1
    THEN GemmProducts(gs[1], gs[1], gs[2] - gs[1], l, ny)
    ELSE IF nimg = 2 /\ ~_has_overlap(gs[1], gs[2], ny)
    THEN GemmProducts(0, 0, gs[2], l, ny) (+) GemmProducts(gs[1], gs[1], ny - gs[1], l, ny)
    ELSE GemmProducts(0, FullMeshExpY(gs[1]), ny, l, ny)

\* lines 317-344: the z contraction has the slice and the full-mesh branch
ContractionZ(nimg, gs, nz) ==
    IF nimg = 1
    THEN [branch |-> "slice", ngrid |-> gs[2] - gs[1], idx |-> gs[1]..(gs[2] - 1)]
    ELSE [branch |-> "full", ngrid |-> nz, idx |-> 0..(nz - 1)]

\* lines 322-327 and 335-340: val += pweightz[i] * pz[i], pz = zs_exp + lz*mesh[2]
ProductsZ(nimg, gs, nz, l) ==
    SetToBag({<<i, l * nz + i>> : i \in ContractionZ(nimg, gs, nz).idx})

\* GTOnumint_3d_orth lines 247-290, the call having been the one for x
ContractAxis ==
    /\ cpc = "cart"
    /\ contr' = Contraction(img_slice[2] - img_slice[1], grid_slice, ax.nx_per_cell)
    /\ pairing' = [axis |-> "x",
                   prod |-> [l \in 0..ax.topl |->
                               ProductsX(img_slice[2] - img_slice[1], grid_slice,
                                         ax.nx_per_cell, l)]]
    /\ cpc' = "done"
    /\ UNCHANGED <<ax, img_slice, grid_slice, xs_exp>>
    /\ UNCHANGED <<drvVars, cacheVars, fillVars, rcutVars, maxVars, ctrVars>>

\* GTOnumint_3d_orth lines 292-315, the call having been the one for y
ContractAxisY ==
    /\ cpc = "cart"
    /\ contr' = Contraction(img_slice[2] - img_slice[1], grid_slice, ax.nx_per_cell)
    /\ pairing' = [axis |-> "y",
                   prod |-> [l \in 0..ax.topl |->
                               ProductsY(img_slice[2] - img_slice[1], grid_slice,
                                         ax.nx_per_cell, l)]]
    /\ cpc' = "done"
    /\ UNCHANGED <<ax, img_slice, grid_slice, xs_exp>>
    /\ UNCHANGED <<drvVars, cacheVars, fillVars, rcutVars, maxVars, ctrVars>>

\* GTOnumint_3d_orth lines 317-344, the call having been the one for z
ContractAxisZ ==
    /\ cpc = "cart"
    /\ contr' = ContractionZ(img_slice[2] - img_slice[1], grid_slice, ax.nx_per_cell)
    /\ pairing' = [axis |-> "z",
                   prod |-> [l \in 0..ax.topl |->
                               ProductsZ(img_slice[2] - img_slice[1], grid_slice,
                                         ax.nx_per_cell, l)]]
    /\ cpc' = "done"
    /\ UNCHANGED <<ax, img_slice, grid_slice, xs_exp>>
    /\ UNCHANGED <<drvVars, cacheVars, fillVars, rcutVars, maxVars, ctrVars>>

CartNext ==
    \/ CartesianComponents
    \/ ContractAxis
    \/ ContractAxisY
    \/ ContractAxisZ

SpecCart == CartInit /\ [][CartNext]_vars

(***************************************************************************)
(* Cache layout: _cache_size against the regions the execution carves out  *)
(***************************************************************************)
OF_CMPLX == 2
_LEN_CART == <<1, 3, 6, 10, 15, 21, 28, 36, 45, 55, 66, 78, 91, 105, 120, 136>>
_CUM_LEN_CART == <<1, 4, 10, 20, 35, 56, 84, 120, 165, 220, 286, 364, 455, 560, 680, 816>>
\* C arrays are indexed from 0
LenCart(l) == _LEN_CART[l + 1]
CumLenCart(l) == _CUM_LEN_CART[l + 1]

\* envs->nf = nfi * nfj
Nf(e) == LenCart(e.i_l) * LenCart(e.j_l)
\* nc = nf * i_ctr * j_ctr
NcOf(e) == Nf(e) * e.i_ctr * e.j_ctr

\* _cache_size, lines 481-496
_cache_size(e) ==
    LET l == e.i_l + e.j_l
        l1 == l + 1
        size == CumLenCart(l) * (1 + e.i_ctr + e.i_ctr * e.j_ctr)
                + l1 * (e.mesh[1] + e.mesh[2] + e.mesh[3])
                + l1 * e.mesh[2] * e.mesh[3]
                + l1 * l1 * e.mesh[3]
                + 20
    IN NcOf(e) * e.n_comp + Max(size, Nf(e) * 8 * OF_CMPLX)

\* GTOnumint1e_loop lines 424-433: gctrj, gctri, g and the two log tables
OffsetG1d(e) == CumLenCart(e.i_l) - LenCart(e.i_l)
LenG1d(e) == CumLenCart(e.i_l + e.j_l) - OffsetG1d(e)
LoopRegion(e) ==
    LenG1d(e) * e.i_ctr * e.j_ctr + LenG1d(e) * e.i_ctr + LenG1d(e)
    + e.i_prim + e.j_prim

\* GTOnumint_3d_orth lines 224-227: xs_exp, ys_exp, zs_exp
ExpRegion(e) == (e.i_l + e.j_l + 1) * (e.mesh[1] + e.mesh[2] + e.mesh[3])

\* GTOnumint_3d_orth lines 262-266: weightyz and weightz
WeightRegion(e) ==
    LET l1 == e.i_l + e.j_l + 1
    IN l1 * e.mesh[2] * e.mesh[3] + l1 * l1 * e.mesh[3]

\* the arguments of the k-th call of _cartesian_components (lines 231-239)
AxisOf(e, k, xf, cut) ==
    [periodic |-> e.dimension >= k,
     nx_per_cell |-> e.mesh[k],
     topl |-> e.i_l + e.j_l,
     x_frac |-> xf,
     cutoff |-> cut,
     heights_inv |-> 1,
     prior |-> STALE]

\* _cartesian_components lines 137-175: the end of what it uses of its cache
\* argument: gridx (nmx doubles, written when topl > 0), and on a periodic
\* axis xs_all behind it (rows 0..topl of nmx doubles and the seed element)
CartRegion(a) ==
    LET nmx == NmxOf(a)
        gridx == IF a.topl > 0 THEN nmx ELSE 0
        xsall == IF a.periodic
                 THEN nmx + Max((a.topl + 1) * nmx, GridCloseToXij(a) + 1)
                 ELSE 0
    IN Max(gridx, xsall)

\* GTOnumint_3d_orth: the end of everything it uses behind zs_exp
OrthScratch(e, xf, cut) ==
    Max(Max(CartRegion(AxisOf(e, 1, xf, cut)), CartRegion(AxisOf(e, 2, xf, cut))),
        Max(CartRegion(AxisOf(e, 3, xf, cut)), WeightRegion(e)))

PairArgs ==
    [i_l : 0..MaxL, j_l : 0..MaxL,
     i_ctr : 1..MaxCtr, j_ctr : 1..MaxCtr,
     i_prim : {1, MaxPrim}, j_prim : {1, MaxPrim},
     n_comp : 1..MaxNComp,
     mesh : (1..MaxMeshC) \X (1..MaxMeshC) \X (1..MaxMeshC),
     dimension : 0..3]

CacheInit ==
    /\ CtrIdle
    /\ MaxCacheIdle
    /\ RcutIdle
    /\ FillIdle
    /\ CartIdle
    /\ DrvIdle
    /\ qpc = "start"
    /\ q \in PairArgs
    /\ qprim = <<>>
    /\ cache_size = 0
    /\ cbase = 0
    /\ ctop = 0

\* GTO_numint1e_drv lines 503-505: out == NULL, the sizing call
Sizing ==
    /\ qpc = "start"
    /\ cache_size' = _cache_size(q)
    /\ qpc' = "sized"
    /\ UNCHANGED <<q, qprim, cbase, ctop>>
    /\ UNCHANGED <<cartVars, drvVars, fillVars, rcutVars, maxVars, ctrVars>>

\* GTO_numint1e_drv lines 507-515: gctr, then the call of GTOnumint1e_loop
ExecDrv ==
    /\ qpc = "sized"
    /\ cbase' = NcOf(q) * q.n_comp
    /\ ctop' = NcOf(q) * q.n_comp
    /\ qpc' = "drv"
    /\ UNCHANGED <<q, qprim, cache_size>>
    /\ UNCHANGED <<cartVars, drvVars, fillVars, rcutVars, maxVars, ctrVars>>

\* GTOnumint1e_loop lines 424-440
ExecLoop ==
    /\ qpc = "drv"
    /\ cbase' = cbase + LoopRegion(q)
    /\ ctop' = Max(ctop, cbase + LoopRegion(q))
    /\ qpc' = "loop"
    /\ UNCHANGED <<q, qprim, cache_size>>
    /\ UNCHANGED <<cartVars, drvVars, fillVars, rcutVars, maxVars, ctrVars>>

\* GTOnumint1e_loop line 458: GTOnumint_3d_orth for a primitive pair whose
\* center and cutoff are xf / Den and cut / Den
ExecOrth ==
    /\ qpc = "loop"
    /\ \E xf \in 0..(Den - 1), cut \in 0..MaxCutC :
          /\ qprim' = [x_frac |-> xf, cutoff |-> cut]
          /\ ctop' = Max(ctop, cbase + ExpRegion(q) + OrthScratch(q, xf, cut))
    /\ qpc' = "orth"
    /\ UNCHANGED <<q, cache_size, cbase>>
    /\ UNCHANGED <<cartVars, drvVars, fillVars, rcutVars, maxVars, ctrVars>>

\* GTO_numint1e_drv lines 516-538
ExecReturn ==
    /\ qpc = "orth"
    /\ qpc' = "done"
    /\ UNCHANGED <<q, qprim, cache_size, cbase, ctop>>
    /\ UNCHANGED <<cartVars, drvVars, fillVars, rcutVars, maxVars, ctrVars>>

CacheNext == Sizing \/ ExecDrv \/ ExecLoop \/ ExecOrth \/ ExecReturn

SpecCache == CacheInit /\ [][CacheNext]_vars

(***************************************************************************)
(* NUMINT1e_fill2c                                                         *)
(*                                                                         *)
(* The basis alternates s and p shells with one contraction each, so the   *)
(* Cartesian block of shell sh has LenCart(sh % 2) functions.  intor is    *)
(* GTO_numint1e_drv with dims = {naoi, naoj}; a call that has a value      *)
(* stores its whole block, the k-th element of mat getting the tag k+1.    *)
(***************************************************************************)
PLAIN == 0
HERMITIAN == 1
ANTIHERMI == 2
SYMMETRIC == 3

Threads == 1..NThreads

\* counts[0] / counts[1] of GTO_numint1e_drv (lines 525-526) for shell sh
ShellDim(sh) == LenCart(sh % 2)

RECURSIVE ao_loc(_)
ao_loc(sh) == IF sh = 0 THEN 0 ELSE ao_loc(sh - 1) + ShellDim(sh - 1)

\* lines 596-599
Nish(a) == a.ish1 - a.ish0
Njsh(a) == a.jsh1 - a.jsh0
Naoi(a) == ao_loc(a.ish1) - ao_loc(a.ish0)
Naoj(a) == ao_loc(a.jsh1) - ao_loc(a.jsh0)

\* lines 616-619: the iterations the loop skips (ish, jsh before the
\* offsets ish0, jsh0 are added)
SkipPair_diag(hermi, ish, jsh) == hermi # PLAIN /\ ish >= jsh
SkipPair(hermi, ish, jsh) == hermi # PLAIN /\ ish > jsh

\* line 627: mat+j0*naoi+i0
FillOffset_noj(i0, j0, naoi) == i0
FillOffset(i0, j0, naoi) == j0 * naoi + i0

\* the element offsets the call for iteration ij stores: for each component n
\* (out+nout*n with nout = dims[0]*dims[1] = naoi*naoj, lines 531-535) the
\* ShellDim(ish) x ShellDim(jsh) block with leading dimension dims[0] = naoi
PairBlock(a, ij) ==
    LET ish == (ij \div Njsh(a)) + a.ish0
        jsh == (ij % Njsh(a)) + a.jsh0
        i0 == ao_loc(ish) - ao_loc(a.ish0)
        j0 == ao_loc(jsh) - ao_loc(a.jsh0)
    IN {Naoi(a) * Naoj(a) * n + FillOffset(i0, j0, Naoi(a)) + j * Naoi(a) + i :
            n \in 0..(a.comp - 1),
            i \in 0..(ShellDim(ish) - 1), j \in 0..(ShellDim(jsh) - 1)}

\* line 635: mat+ic*naoi*naoi
MirrorBase_first(ic, naoi) == 0
MirrorBase(ic, naoi) == ic * naoi * naoi

\* NPdsymm_triu(n, m + base, hermi): the upper triangle of the n x n
\* F-array (element (i, j) at j*n + i, i < j) is copied, or for ANTIHERMI
\* negated, into the lower triangle
NPdsymm_triu(n, m, base, hermi) ==
    [k \in {base + p[1] * n + p[2] :
               p \in {r \in (0..(n - 1)) \X (0..(n - 1)) : r[1] < r[2]}} |->
        IF hermi = ANTIHERMI
        THEN -m[base + ((k - base) % n) * n + ((k - base) \div n)]
        ELSE m[base + ((k - base) % n) * n + ((k - base) \div n)]] @@ m

\* the implicit barrier that ends the parallel region (lines 603-631)
RegionJoined_nowait(tp) == TRUE
RegionJoined(tp) == \A t \in Threads : tp[t] = "done"

ShellPairs(a) == (a.ish0..(a.ish1 - 1)) \X (a.jsh0..(a.jsh1 - 1))

FillArgs ==
    {a \in [hermi : {PLAIN, HERMITIAN, ANTIHERMI, SYMMETRIC},
            ish0 : 0..(NShell - 1), ish1 : 1..NShell,
            jsh0 : 0..(NShell - 1), jsh1 : 1..NShell,
            comp : 1..MaxNComp] :
        /\ a.ish0 < a.ish1 /\ a.ish1 - a.ish0 <= MaxSlice
        /\ a.jsh0 < a.jsh1 /\ a.jsh1 - a.jsh0 <= MaxSlice
        \* NPdsymm_triu takes each component as naoi x naoi
        /\ (a.hermi # PLAIN => Naoi(a) = Naoj(a))}

FillInit ==
    /\ CtrIdle
    /\ MaxCacheIdle
    /\ RcutIdle
    /\ CartIdle
    /\ DrvIdle
    /\ CacheIdle
    /\ fpc = "parallel"
    /\ f \in FillArgs
    /\ next_ij = 0
    /\ tpc = [t \in Threads |-> "idle"]
    /\ tij = [t \in Threads |-> -1]
    /\ mat = [k \in 0..(f.comp * Naoi(f) * Naoj(f) - 1) |-> STALEVAL]
    /\ calls = [p \in ShellPairs(f) |-> 0]
    /\ writers = [k \in 0..(f.comp * Naoi(f) * Naoj(f) - 1) |-> {}]
    /\ mic = 0

\* lines 613-627: a worker is handed the next iteration and either skips it
\* or calls intor
TakePair(t) ==
    /\ fpc # "idle"
    /\ tpc[t] = "idle"
    /\ next_ij < Nish(f) * Njsh(f)
    /\ next_ij' = next_ij + 1
    /\ LET ish == next_ij \div Njsh(f)
           jsh == next_ij % Njsh(f)
       IN IF SkipPair(f.hermi, ish, jsh)
          THEN UNCHANGED <<tpc, tij, calls>>
          ELSE /\ tpc' = [tpc EXCEPT ![t] = "calling"]
               /\ tij' = [tij EXCEPT ![t] = next_ij]
               /\ calls' = [calls EXCEPT ![<<ish + f.ish0, jsh + f.jsh0>>] = @ + 1]
    /\ UNCHANGED <<fpc, f, mat, writers, mic>>
    /\ UNCHANGED <<cartVars, drvVars, cacheVars, rcutVars, maxVars, ctrVars>>

\* lines 627-628: the call stores its block and returns
WriteBlock(t) ==
    /\ tpc[t] = "calling"
    /\ LET ish == (tij[t] \div Njsh(f)) + f.ish0
           jsh == (tij[t] % Njsh(f)) + f.jsh0
        IN /\ mat' = [k \in PairBlock(f, tij[t]) |-> k + 1] @@ mat
          /\ writers' = [k \in PairBlock(f, tij[t]) |->
                            writers[k] \cup {<<ish, jsh>>}] @@ writers
    /\ tpc' = [tpc EXCEPT ![t] = "idle"]
    /\ tij' = [tij EXCEPT ![t] = -1]
    /\ UNCHANGED <<fpc, f, next_ij, calls, mic>>
    /\ UNCHANGED <<cartVars, drvVars, cacheVars, rcutVars, maxVars, ctrVars>>

\* lines 629-631: no iteration is left; the worker frees its cache and waits
WorkerDone(t) ==
    /\ fpc # "idle"
    /\ tpc[t] = "idle"
    /\ next_ij = Nish(f) * Njsh(f)
    /\ tpc' = [tpc EXCEPT ![t] = "done"]
    /\ UNCHANGED <<fpc, f, next_ij, tij, mat, calls, writers, mic>>
    /\ UNCHANGED <<cartVars, drvVars, cacheVars, rcutVars, maxVars, ctrVars>>

\* line 631: the encountering thread leaves the parallel region
LeaveRegion ==
    /\ fpc = "parallel"
    /\ RegionJoined(tpc)
    /\ fpc' = "mirror"
    /\ mic' = 0
    /\ UNCHANGED <<f, next_ij, tpc, tij, mat, calls, writers>>
    /\ UNCHANGED <<cartVars, drvVars, cacheVars, rcutVars, maxVars, ctrVars>>

\* lines 632-636: one iteration of the mirror loop
MirrorStep ==
    /\ fpc = "mirror"
    /\ f.hermi # PLAIN
    /\ mic < f.comp
    /\ mat' = NPdsymm_triu(Naoi(f), mat, MirrorBase(mic, Naoi(f)), f.hermi)
    /\ mic' = mic + 1
    /\ UNCHANGED <<fpc, f, next_ij, tpc, tij, calls, writers>>
    /\ UNCHANGED <<cartVars, drvVars, cacheVars, rcutVars, maxVars, ctrVars>>

\* line 638
FillReturn ==
    /\ fpc = "mirror"
    /\ (f.hermi = PLAIN \/ mic = f.comp)
    /\ fpc' = "returned"
    /\ UNCHANGED <<f, next_ij, tpc, tij, mat, calls, writers, mic>>
    /\ UNCHANGED <<cartVars, drvVars, cacheVars, rcutVars, maxVars, ctrVars>>

FillNext ==
    \/ \E t \in Threads : TakePair(t)
    \/ \E t \in Threads : WriteBlock(t)
    \/ \E t \in Threads : WorkerDone(t)
    \/ LeaveRegion
    \/ MirrorStep
    \/ FillReturn

SpecFill == FillInit /\ [][FillNext]_vars

(***************************************************************************)
(* gto_rcut                                                                *)
(*                                                                         *)
(* log|c|, log_prec and alpha are integers here.  The returned r is kept   *)
(* by its square: r = sqrt(num / den), the non-negative root, so r = 0 is  *)
(* num = 0 and the square root of a negative number would be num < 0.      *)
(***************************************************************************)
\* line 76: log_prec -= 7;
LOG_PREC_PENALTY == 7
PenalisedLogPrec(log_prec) == log_prec - LOG_PREC_PENALTY

\* lines 78, 79 and 89: prod = 0 + log_c - log_prec
Prod(a) == 0 + a.log_c - PenalisedLogPrec(a.log_prec)

\* lines 90-94: r = sqrt(prod / alpha) if prod > 0, else r = 0
RcutOf_unguarded(prod, alpha) == [num |-> prod, den |-> alpha]
RcutOf(prod, alpha) ==
    IF prod > 0 THEN [num |-> prod, den |-> alpha] ELSE [num |-> 0, den |-> 1]

RcutArgs ==
    [alpha : 1..MaxAlpha, l : 0..MaxL,
     log_c : (-MaxLogC)..MaxLogC, log_prec : (-MaxLogPrec)..0]

RcutInit ==
    /\ CtrIdle
    /\ MaxCacheIdle
    /\ CartIdle
    /\ DrvIdle
    /\ CacheIdle
    /\ FillIdle
    /\ rpc = "entry"
    /\ rarg \in RcutArgs
    /\ rcut = <<>>

\* lines 74-96
gto_rcut ==
    /\ rpc = "entry"
    /\ rcut' = RcutOf(Prod(rarg), rarg.alpha)
    /\ rpc' = "returned"
    /\ UNCHANGED rarg
    /\ UNCHANGED <<cartVars, drvVars, cacheVars, fillVars, maxVars, ctrVars>>

RcutNext == gto_rcut

SpecRcut == RcutInit /\ [][RcutNext]_vars

(***************************************************************************)
(* _max_cache_size and the cache the fill loop hands to intor              *)
(***************************************************************************)
\* CINTinit_int1e_EnvVars as far as _cache_size reads envs: the angular
\* momenta and contraction counts of shells shls[0], shls[1]
EnvOf(b, ish, jsh) ==
    [i_l |-> b.bas[ish].l, j_l |-> b.bas[jsh].l,
     i_ctr |-> b.bas[ish].ctr, j_ctr |-> b.bas[jsh].ctr,
     n_comp |-> b.n_comp, mesh |-> b.mesh]

\* lines 577-578: (*intor)(NULL, NULL, shls, ...), the sizing query
SizingQuery(b, ish, jsh) == _cache_size(EnvOf(b, ish, jsh))

\* lines 570-571
ScanFrom(b) == Min(b.ish0, b.jsh0)
ScanTo(b) == Max(b.ish1, b.jsh1)

MaxCacheArgs ==
    {b \in [bas : [0..(NShellM - 1) -> [l : 0..MaxL, ctr : {1, MaxCtrM}]],
            ish0 : 0..(NShellM - 1), ish1 : 1..NShellM,
            jsh0 : 0..(NShellM - 1), jsh1 : 1..NShellM,
            mesh : (1..MaxMeshM) \X (1..MaxMeshM) \X (1..MaxMeshM),
            n_comp : 1..MaxNComp] :
        b.ish0 < b.ish1 /\ b.jsh0 < b.jsh1}

MaxCacheInit ==
    /\ CtrIdle
    /\ CartIdle
    /\ DrvIdle
    /\ CacheIdle
    /\ FillIdle
    /\ RcutIdle
    /\ mpc = "scan"
    /\ mb \in MaxCacheArgs
    /\ mi = ScanFrom(mb)
    /\ max_size = 0
    /\ mshls = <<>>
    /\ mneed = 0

\* lines 574-580: one iteration of the loop over the diagonal pairs
MaxCacheStep ==
    /\ mpc = "scan"
    /\ mi < ScanTo(mb)
    /\ max_size' = Max(max_size, SizingQuery(mb, mi, mi))
    /\ mi' = mi + 1
    /\ UNCHANGED <<mpc, mb, mshls, mneed>>
    /\ UNCHANGED <<cartVars, drvVars, cacheVars, fillVars, rcutVars, ctrVars>>

\* line 581, and NUMINT1e_fill2c lines 600-611: each thread's cache
MaxCacheReturn ==
    /\ mpc = "scan"
    /\ mi = ScanTo(mb)
    /\ mpc' = "sized"
    /\ UNCHANGED <<mb, mi, max_size, mshls, mneed>>
    /\ UNCHANGED <<cartVars, drvVars, cacheVars, fillVars, rcutVars, ctrVars>>

\* NUMINT1e_fill2c lines 613-628: an iteration calls intor for (ish, jsh)
\* with that cache
RunPair ==
    /\ mpc = "sized"
    /\ \E ish \in mb.ish0..(mb.ish1 - 1), jsh \in mb.jsh0..(mb.jsh1 - 1) :
          /\ mshls' = <<ish, jsh>>
          /\ mneed' = SizingQuery(mb, ish, jsh)
    /\ mpc' = "pair"
    /\ UNCHANGED <<mb, mi, max_size>>
    /\ UNCHANGED <<cartVars, drvVars, cacheVars, fillVars, rcutVars, ctrVars>>

MaxCacheNext == MaxCacheStep \/ MaxCacheReturn \/ RunPair

SpecMaxCache == MaxCacheInit /\ [][MaxCacheNext]_vars

(***************************************************************************)
(* GTOnumint1e_loop: contraction of the primitive pairs                    *)
(*                                                                         *)
(* A double of g, gctri or gctrj is a linear form with integer             *)
(* coefficients over the values GTOnumint_3d_orth stores: the basis        *)
(* element <<ip, jp, k>> is g[k] as computed for the primitive pair        *)
(* (ip, jp), and <<-1, -1, -1>> is what a buffer held before the call.     *)
(***************************************************************************)
PRIOR == <<-1, -1, -1>>
Basis(a) ==
    ((0..(a.i_prim - 1)) \X (0..(a.j_prim - 1)) \X (0..(a.len_g1d - 1))) \cup {PRIOR}

Unit(a, e) == [x \in Basis(a) |-> IF x = e THEN 1 ELSE 0]
Scale(c, v) == [x \in DOMAIN v |-> c * v[x]]
Add(v, w) == [x \in DOMAIN v |-> v[x] + w[x]]

\* the coefficient tables ci[ic*i_prim + ip] and cj[jc*j_prim + jp]
CiOf(a) == [n \in 0..(a.i_ctr * a.i_prim - 1) |-> (n + a.shift) % 3]
CjOf(a) == [n \in 0..(a.j_ctr * a.j_prim - 1) |-> (2 * n + a.shift + 1) % 3]

\* lines 356-382, with coeff[nprim*n] read at offset off of table tab
plain_prim_to_ctr(gc, nf, gp, nprim, nctr, tab, off, empty) ==
    [x \in DOMAIN gc |->
        IF x \div nf >= nctr THEN gc[x]
        ELSE IF empty THEN Scale(tab[off + nprim * (x \div nf)], gp[x % nf])
        ELSE IF tab[off + nprim * (x \div nf)] # 0
             THEN Add(gc[x], Scale(tab[off + nprim * (x \div nf)], gp[x % nf]))
             ELSE gc[x]]

\* line 453, the pattern of screened pairs being an input
Skipped(a, ip, jp) == <<ip, jp>> \in a.skipped

\* line 461: the empty argument of the contraction into gctri
IEmptyArg_never(l) == FALSE
IEmptyArg(l) == l.iempty

CtrArgs ==
    UNION {
      [i_prim : {ni}, j_prim : {nj},
       i_ctr : 1..MaxCtr, j_ctr : 1..MaxCtr,
       len_g1d : {1, 2},
       shift : 0..2,
       skipped : SUBSET PrimPairs(ni, nj)]
      : ni \in 1..MaxPrimLoop, nj \in 1..MaxPrimLoop }

CtrInit ==
    /\ CartIdle
    /\ DrvIdle
    /\ CacheIdle
    /\ FillIdle
    /\ RcutIdle
    /\ MaxCacheIdle
    /\ kpc = "loop"
    /\ karg \in CtrArgs
    /\ klp = [jp |-> 0, ip |-> 0, jempty |-> TRUE, iempty |-> TRUE]
    /\ gprim = [k \in 0..(karg.len_g1d - 1) |-> Unit(karg, PRIOR)]
    /\ gctri = [x \in 0..(karg.len_g1d * karg.i_ctr - 1) |-> Unit(karg, PRIOR)]
    /\ gctrj = [x \in 0..(karg.len_g1d * karg.i_ctr * karg.j_ctr - 1) |->
                    Unit(karg, PRIOR)]

\* lines 449-464: one ip iteration
CtrPrimPair ==
    /\ kpc = "loop"
    /\ klp.jp < karg.j_prim
    /\ klp.ip < karg.i_prim
    /\ IF Skipped(karg, klp.ip, klp.jp)
       THEN /\ klp' = [klp EXCEPT !.ip = @ + 1]
            /\ UNCHANGED <<gprim, gctri>>
       ELSE /\ gprim' = [k \in DOMAIN gprim |-> Unit(karg, <<klp.ip, klp.jp, k>>)]
            /\ gctri' = plain_prim_to_ctr(gctri, karg.len_g1d, gprim',
                                          karg.i_prim, karg.i_ctr,
                                          CiOf(karg), klp.ip, IEmptyArg(klp))
            /\ klp' = [klp EXCEPT !.ip = @ + 1, !.iempty = FALSE]
    /\ UNCHANGED <<kpc, karg, gctrj>>
    /\ UNCHANGED <<cartVars, drvVars, cacheVars, fillVars, rcutVars, maxVars>>

\* lines 447-448 and 465-470: the ip loop of one jp is over
CtrEndOfJp ==
    /\ kpc = "loop"
    /\ klp.jp < karg.j_prim
    /\ klp.ip = karg.i_prim
    /\ IF ~klp.iempty
       THEN /\ gctrj' = plain_prim_to_ctr(gctrj, karg.i_ctr * karg.len_g1d, gctri,
                                          karg.j_prim, karg.j_ctr,
                                          CjOf(karg), klp.jp, klp.jempty)
            /\ klp' = [jp |-> klp.jp + 1, ip |-> 0,
                       jempty |-> FALSE, iempty |-> TRUE]
       ELSE /\ UNCHANGED gctrj
            /\ klp' = [klp EXCEPT !.jp = @ + 1, !.ip = 0, !.iempty = TRUE]
    /\ UNCHANGED <<kpc, karg, gprim, gctri>>
    /\ UNCHANGED <<cartVars, drvVars, cacheVars, fillVars, rcutVars, maxVars>>

\* line 446: the jp loop is over
CtrLoopDone ==
    /\ kpc = "loop"
    /\ klp.jp = karg.j_prim
    /\ kpc' = "done"
    /\ UNCHANGED <<karg, klp, gprim, gctri, gctrj>>
    /\ UNCHANGED <<cartVars, drvVars, cacheVars, fillVars, rcutVars, maxVars>>

CtrNext == CtrPrimPair \/ CtrEndOfJp \/ CtrLoopDone

SpecCtr == CtrInit /\ [][CtrNext]_vars

(***************************************************************************)
(* Claims about _cartesian_components and the axis contraction             *)
(***************************************************************************)
CartReturned == cpc \in {"cart", "done"}

\* the sum over the images m in [0, nimg) of xs_all[l*nmx + m*nx_per_cell + i]
ImageSum(a, l, i) ==
    BagSum([m \in 1..NimgOf(a) |->
               XsAll(a, l * NmxOf(a) + (m - 1) * a.nx_per_cell + i)])

\* C3: on a periodic axis, when _cartesian_components has returned, every
\* xs_exp[l*nx_per_cell + i] (l in 0..topl, i in [0, nx_per_cell)) is the sum
\* over all images of the unfolded values xs_all[l*nmx + m*nx_per_cell + i].
\* (Stated for calls that have at least one image, where every term of the
\* sum is a value the recursion stored.)
C3_FoldIsImageSum ==
    (CartReturned /\ ax.periodic /\ img_slice[2] - img_slice[1] >= 1) =>
        \A l \in 0..ax.topl : \A i \in 0..(ax.nx_per_cell - 1) :
            xs_exp[l * ax.nx_per_cell + i] = ImageSum(ax, l, i)

\* C9: the image count img_slice[1] - img_slice[0] is never negative, is 0
\* only when the cutoff is <= 0, is at least 1 on a periodic axis with a
\* positive cutoff and is exactly 1 on a non-periodic axis.
C9_ImageCount ==
    CartReturned =>
        LET nimg == img_slice[2] - img_slice[1]
        IN /\ nimg >= 0
           /\ (nimg = 0 => ax.cutoff <= 0)
           /\ ((ax.periodic /\ ax.cutoff > 0) => nimg >= 1)
           /\ (~ax.periodic => nimg = 1)

\* C9 witness: a periodic axis with a positive cutoff that spans several images
C9_Witness ==
    /\ cpc = "cart"
    /\ ax.periodic
    /\ ax.cutoff > 0
    /\ img_slice[2] - img_slice[1] >= 2

\* C10: with a cutoff of 0 the grid slice has width 0 or 1 and the axis
\* contraction runs over exactly that slice.
C10_ZeroCutoffSlice ==
    (cpc = "done" /\ ax.cutoff = 0) =>
        /\ grid_slice[2] - grid_slice[1] \in {0, 1}
        /\ contr.idx = grid_slice[1]..(grid_slice[2] - 1)

(***************************************************************************)
(* Claims about GTO_numint1e_drv                                           *)
(***************************************************************************)
\* C1: when every primitive pair is screened out, GTO_numint1e_drv returns 0
\* and every element of the shell pair's block of out is zero, whatever the
\* block held before the call.
C1_EmptyPairZeroFilled ==
    (dpc = "returned" /\ \A p \in DOMAIN shl.eij : Screened(shl, p[1], p[2])) =>
        /\ ret = 0
        /\ \A a \in BlockAddrs(shl) : out[a] = ZERO

\* C4: a computation on a non-orthogonal lattice never returns integral
\* values: it ends in the fatal error, with out as it was, and the shell-pair
\* path does not run the orthogonal routine for it.
C4_NonorthIsFatal ==
    (dpc # "idle" /\ shl.offdiag) =>
        /\ ~(dpc = "returned" /\ ret = 1)
        /\ (dpc = "fatal" => \A a \in DOMAIN out : out[a] = shl.prior)

\* C2: executing a shell pair with a cache of exactly the size its sizing
\* call returned uses no cache index at or beyond that size: every region
\* carved out by GTO_numint1e_drv, GTOnumint1e_loop, GTOnumint_3d_orth and
\* _cartesian_components ends inside the cache.
C2_CacheSufficient ==
    qpc \in {"drv", "loop", "orth", "done"} => ctop <= cache_size

(***************************************************************************)
(* Claims about NUMINT1e_fill2c                                            *)
(***************************************************************************)
\* element (i, j) of component n, at the offset where the loop filled it
M(n, i, j) == mat[Naoi(f) * Naoj(f) * n + j * Naoi(f) + i]

AOs == 0..(Naoi(f) - 1)
Comps == 0..(f.comp - 1)

\* C5 as stated: after NUMINT1e_fill2c returns with hermi = HERMITIAN every
\* component satisfies M[i,j] = M[j,i], and with hermi = ANTIHERMI every
\* component satisfies M[i,j] = -M[j,i], for all i, j of the AO range.
C5_MirrorAllPairs ==
    fpc = "returned" =>
        /\ f.hermi = HERMITIAN =>
               \A n \in Comps, i \in AOs, j \in AOs : M(n, i, j) = M(n, j, i)
        /\ f.hermi = ANTIHERMI =>
               \A n \in Comps, i \in AOs, j \in AOs : M(n, i, j) = -M(n, j, i)

\* C5 amended: on a square AO range (naoi = naoj) the returned matrix has
\* M[i,j] = M[j,i] for all i, j under HERMITIAN and M[i,j] = -M[j,i] for all
\* i # j under ANTIHERMI; the diagonal of an ANTIHERMI result is left as the
\* loop stored it.
C5_MirrorOffDiagonal ==
    (fpc = "returned" /\ Naoi(f) = Naoj(f)) =>
        /\ f.hermi = HERMITIAN =>
               \A n \in Comps, i \in AOs, j \in AOs : M(n, i, j) = M(n, j, i)
        /\ f.hermi = ANTIHERMI =>
               \A n \in Comps, i \in AOs, j \in AOs :
                   i # j => M(n, i, j) = -M(n, j, i)

C5_Witness ==
    /\ fpc = "returned"
    /\ f.hermi = ANTIHERMI
    /\ f.comp = 2
    /\ Naoi(f) = 4
    /\ mic = 2
    /\ M(1, 0, 3) > 0
    /\ M(1, 3, 0) = -M(1, 0, 3)

\* C6 as stated: intor is invoked exactly once for every shell pair of the
\* slice when hermi = PLAIN, and otherwise exactly once for the pairs with
\* shell-i index <= shell-j index and never for the others.
C6_OncePerAbsolutePair ==
    fpc = "returned" =>
        \A p \in ShellPairs(f) :
            calls[p] = IF f.hermi = PLAIN \/ p[1] <= p[2] THEN 1 ELSE 0

\* C6 amended: the triangle is taken on the indices relative to the slice:
\* with hermi # PLAIN intor is invoked exactly once for the pairs with
\* ish - ish0 <= jsh - jsh0 and never for the others.
C6_OncePerRelativePair ==
    fpc = "returned" =>
        \A p \in ShellPairs(f) :
            calls[p] = IF f.hermi = PLAIN \/ p[1] - f.ish0 <= p[2] - f.jsh0
                       THEN 1 ELSE 0

C6_Witness ==
    /\ fpc = "returned"
    /\ f.hermi = HERMITIAN
    /\ f.ish0 > f.jsh0
    /\ Nish(f) = 2
    /\ calls[<<f.ish0, f.jsh0>>] = 1
    /\ calls[<<f.ish0 + 1, f.jsh0>>] = 0

\* the rows and columns of the block of shell pair p
BlockRows(p) == (ao_loc(p[1]) - ao_loc(f.ish0))..(ao_loc(p[1] + 1) - ao_loc(f.ish0) - 1)
BlockCols(p) == (ao_loc(p[2]) - ao_loc(f.jsh0))..(ao_loc(p[2] + 1) - ao_loc(f.jsh0) - 1)

\* C7: no matrix element is stored by the calls of two different shell
\* pairs, and the call for (ish, jsh) stores only elements whose row lies in
\* [ao_loc[ish]-ao_loc[ish0], ao_loc[ish+1]-ao_loc[ish0]) and whose column
\* lies in the corresponding j range, whatever the schedule.
C7_DisjointBlocks ==
    fpc # "idle" =>
        \A k \in DOMAIN writers :
            /\ Cardinality(writers[k]) <= 1
            /\ \A p \in writers[k] :
                   /\ (k % Naoi(f)) \in BlockRows(p)
                   /\ ((k \div Naoi(f)) % Naoj(f)) \in BlockCols(p)

C7_Witness ==
    /\ fpc = "returned"
    /\ f.hermi = PLAIN
    /\ f.comp = 2
    /\ Nish(f) = 2 /\ Njsh(f) = 2
    /\ Naoi(f) # Naoj(f) \/ f.ish0 # f.jsh0
    /\ \A k \in DOMAIN writers : Cardinality(writers[k]) = 1

\* C8: once the encountering thread is past the parallel region (it runs the
\* mirror loop or has returned) every iteration has been handed out and no
\* worker has an intor call in flight or still to make.
C8_MirrorAfterAllCalls ==
    fpc \in {"mirror", "returned"} =>
        /\ next_ij = Nish(f) * Njsh(f)
        /\ \A t \in Threads : tpc[t] = "done"

C8_Witness ==
    /\ fpc = "mirror"
    /\ f.hermi # PLAIN
    /\ mic = 1
    /\ f.comp = 2
    /\ \E p \in ShellPairs(f), r \in ShellPairs(f) :
           p # r /\ calls[p] = 1 /\ calls[r] = 1
(***************************************************************************)
(* Claims about gto_rcut                                                   *)
(***************************************************************************)
\* C11 as stated: with d = log|c| - (log_prec - 8), gto_rcut returns the
\* r >= 0 with alpha * r^2 = d when d > 0 and 0 when d <= 0.
C11_MarginEight ==
    rpc = "returned" =>
        LET d == rarg.log_c - (rarg.log_prec - 8)
        IN /\ rcut.den > 0 /\ rcut.num >= 0
           /\ IF d > 0 THEN rarg.alpha * rcut.num = d * rcut.den
                       ELSE rcut.num = 0

\* C11 amended: the margin is 7: with d = log|c| - (log_prec - 7), gto_rcut
\* returns the r >= 0 with alpha * r^2 = d when d > 0 and 0 when d <= 0, so
\* its result is never negative.
C11_MarginSeven ==
    rpc = "returned" =>
        LET d == rarg.log_c - (rarg.log_prec - 7)
        IN /\ rcut.den > 0 /\ rcut.num >= 0
           /\ IF d > 0 THEN rarg.alpha * rcut.num = d * rcut.den
                       ELSE rcut.num = 0

C11_Witness ==
    /\ rpc = "returned"
    /\ rarg.alpha = 2
    /\ rarg.log_c - rarg.log_prec = -6
    /\ rcut.num = 1
(***************************************************************************)
(* Claims about _max_cache_size                                            *)
(***************************************************************************)
\* C12: the cache size NUMINT1e_fill2c takes from _max_cache_size (the
\* maximum of the sizing query over the diagonal pairs of the shell range) is
\* at least the sizing query's result for every pair the loop runs with it.
C12_MaxCoversEveryPair ==
    mpc = "pair" => mneed <= max_size
(***************************************************************************)
(* Claims about the contraction in GTOnumint1e_loop                        *)
(***************************************************************************)
\* the sum over the pairs that were not skipped of
\* ci[ic][ip] * cj[jc][jp] * g(ip,jp)[k]
ContractedSum(a, jc, ic, k) ==
    [x \in Basis(a) |->
        IF x # PRIOR /\ x[3] = k /\ ~Skipped(a, x[1], x[2])
        THEN CiOf(a)[ic * a.i_prim + x[1]] * CjOf(a)[jc * a.j_prim + x[2]]
        ELSE 0]

GctrjIsContractedSum ==
    \A jc \in 0..(karg.j_ctr - 1), ic \in 0..(karg.i_ctr - 1),
       k \in 0..(karg.len_g1d - 1) :
        gctrj[jc * karg.i_ctr * karg.len_g1d + ic * karg.len_g1d + k]
            = ContractedSum(karg, jc, ic, k)

\* C13 as stated: for every pattern of screened pairs, when the primitive
\* loops finish gctrj holds at (jc, ic, k) exactly the sum of
\* ci[ic][ip] * cj[jc][jp] * g(ip,jp)[k] over the pairs not skipped.
C13_ContractedSumAlways ==
    kpc = "done" => GctrjIsContractedSum

\* C13 amended: the same, for every pattern in which at least one primitive
\* pair is not skipped (the loop returns 1); when every pair is skipped
\* gctrj is not written and keeps its prior contents.
C13_ContractedSumIfValue ==
    (kpc = "done" /\ ~klp.jempty) => GctrjIsContractedSum

C13_Witness ==
    /\ kpc = "done"
    /\ karg.i_prim = 2 /\ karg.j_prim = 2
    /\ karg.i_ctr = 2 /\ karg.j_ctr = 2
    /\ karg.skipped = {<<0, 0>>, <<1, 1>>}
    /\ GctrjIsContractedSum
    /\ \E x \in DOMAIN gctrj : gctrj[x][<<0, 1, 0>>] # 0 /\ gctrj[x][<<1, 0, 0>>] # 0
(***************************************************************************)
(* Claims about the branches of the axis contractions                      *)
(***************************************************************************)
\* C14: in whichever branch the contraction of an axis takes, for every
\* power l each grid index i of the branch's index set is multiplied by the
\* exp value stored for that same index, offset l*mesh + i, exactly once,
\* and nothing else is summed; in the full-mesh branch of y weight row iy
\* goes with ys_exp[l*mesh[1] + iy].
C14_SameIndexOnce ==
    cpc = "done" =>
        \A l \in 0..ax.topl :
            pairing.prod[l] = SetToBag({<<i, l * ax.nx_per_cell + i>> : i \in contr.idx})
====
